---- MODULE Spec2Model ----
(***************************************************************************)
(* Model of the Yinzcam realtime ingestion driver, src/get_data_by_id.py.  *)
(*                                                                         *)
(* The data lake (ADL) is a map from the record-set kinds whose directory   *)
(* exists to a directory of files; a file name is the string the program   *)
(* builds, kept as the                                                     *)
(* sequence of its character codes so that sorted() orders names as Python *)
(* orders strings.  A table is the set of primary identifiers of its rows. *)
(* The remote API holds a finite set of action identifiers and answers a   *)
(* request (startId, maxRecords) with the maxRecords smallest identifiers  *)
(* >= startId (sortBy=id).                                                 *)
(*                                                                         *)
(* The program's page limit (250) and MAX_RECORDS_PER_FILE (1000000, a     *)
(* multiple of the page limit, 4000 pages) are scaled to 2 and 6 (3 pages):*)
(* the ceiling stays a multiple of the page limit and stays above two      *)
(* pages.                                                                  *)
(***************************************************************************)
EXTENDS Integers, Sequences, FiniteSets, TLC

\* ------------------------------------------------------------------ bounds
\* Largest action identifier the remote source may hold.
MaxId == 15
\* Number of times the script is started.
MaxRuns == 2
\* The count of HTTP GETs of a run stops counting here.
MaxGets == 4

\* --------------------------------------------------------- program constants
\* get_data: limit = 250 (scaled).
limit == 2
\* MAX_RECORDS_PER_FILE = 1000000 (scaled).
MAX_RECORDS_PER_FILE == 6
\* get_data: retry = 5.
RetryBudget == 5

Kinds == <<"actions", "sessions", "geoip", "hardware">>

VARIABLES
    remote,          \* identifiers of the actions the remote API holds
    adl,             \* data lake: kind of an existing directory -> (file name -> table)
    now,             \* wall clock
    runs,            \* number of starts of the script so far
    pc,              \* position of the driver
    currentRunTime,  \* main: args.start_time
    num_of_records,  \* main
    maxId,           \* main: the watermark resolved for this iteration
    dfs,             \* main: kind -> table returned by get_data
    minAct, maxAct,  \* main
    collection,      \* main: index in Kinds of the next push
    newMaxId,        \* get_data
    value_count,     \* get_data
    maxRecords,      \* get_data
    lists,           \* get_data: actions_l, sessions_l, geoip_l, hardware_l
    url,             \* get_data: the page's request
    retry,           \* get_data
    status_code,     \* get_data (0: None)
    content,         \* get_data
    attempts,        \* observation: the startId of each GET of the current page
    outcome,         \* observation: what the last GET of this page led to
    got,             \* observation: pages received and parsed in the last call
    gets,            \* observation: GETs issued in this run (up to MaxGets)
    requested,       \* observation: pages requested in the current call
    table,           \* normalisation: one kind's table, with its rows
    corrupt,         \* actions files whose content no longer parses as the table
    schema,          \* the shape of the columns the API's records of each kind come with
    columns,         \* main: the shape of the columns of each table of dfs
    max_value_count, \* get_data: the ceiling max_value
    second,          \* a second instance of the script: its position and its locals
    exhausted,       \* observation: the call of get_data ended with a page out of attempts
    profiles,        \* ingest-profiles-csv.py: IngestUserProfiles, its position and its locals
    meta             \* meta-load.py: main, its position, the server's files and the data lake's

vars == <<remote, adl, now, runs, pc, currentRunTime, num_of_records, maxId,
          dfs, minAct, maxAct, collection, newMaxId, value_count, maxRecords,
          lists, url, retry, status_code, content, attempts, outcome, got, gets,
          requested, table, corrupt, schema, columns, max_value_count,
          second,
          exhausted,
          profiles,
          meta>>

\* ------------------------------------------------------------------ helpers
SetMax(S) == CHOOSE x \in S : \A y \in S : y <= x
SetMin(S) == CHOOSE x \in S : \A y \in S : x <= y

\* Python str(n) of a non-negative integer, as character codes.
RECURSIVE str(_)
str(n) == IF n < 10 THEN <<48 + n>> ELSE str(n \div 10) \o <<48 + (n % 10)>>

\* Python's order on strings: by code point, a proper prefix first.
RECURSIVE StrLess(_, _)
StrLess(a, b) ==
    IF a = <<>> THEN b # <<>>
    ELSE IF b = <<>> THEN FALSE
    ELSE IF Head(a) # Head(b) THEN Head(a) < Head(b)
    ELSE StrLess(Tail(a), Tail(b))

\* sorted() of a set of strings.
RECURSIVE sorted(_)
sorted(S) ==
    IF S = {} THEN <<>>
    ELSE LET m == CHOOSE x \in S : \A y \in S : y = x \/ StrLess(x, y)
         IN  <<m>> \o sorted(S \ {m})

\* Mutant of get_right_format: the run time is left out of the result.
get_right_format_NoTime(time) == <<48, 48>>

\* strftime('%Y-%m-%d_%H_%M_%S') of the run time: every field has a fixed
\* width and is zero-padded; the model's time runs within one field.
get_right_format(time) == <<48 + (time \div 10), 48 + (time % 10)>>

\* push_to_adl: fileName.
FileName(time, lo, hi) ==
    get_right_format(time) \o <<95>> \o str(lo) \o <<95>> \o str(hi)
        \o <<46, 99, 115, 118>>

EmptyTables == [k \in {"actions", "sessions", "geoip", "hardware"} |-> {}]
NoContent == [kind |-> "none", tables |-> EmptyTables]
NoUrl == [startId |-> 0, maxRecords |-> 0]

\* The remote API's answer to startId=s, maxRecords=m, sortBy=id.
ApiPage(s, m) ==
    LET avail == {i \in remote : i >= s}
        ids == {i \in avail : Cardinality({j \in avail : j < i}) < m}
    IN  [k \in {"actions", "sessions", "geoip", "hardware"} |-> ids]

\* What one GET can lead to.
Responses2xx ==
    { [kind |-> "timeout", status |-> 0, body |-> "none"],
      [kind |-> "response", status |-> 200, body |-> "page"],
      [kind |-> "response", status |-> 200, body |-> "garbage"] }
ResponsesNon2xx ==
    { [kind |-> "response", status |-> 500, body |-> "garbage"],
      [kind |-> "response", status |-> 500, body |-> "error_json"] }
ResponsesStub == { [kind |-> "response", status |-> 200, body |-> "page"] }

\* adlsFileSystemClient.exists(data_lake_directory)
exists(lake, kind) == kind \in DOMAIN lake

\* The files of a kind: those of its directory, none without a directory.
Files(lake, kind) == IF exists(lake, kind) THEN lake[kind] ELSE <<>>

\* Mutant of get_max_id_adl: without files the minimum identifier, 1, is
\* returned in place of 0.
get_max_id_adl_MinId(lake) ==
    LET listFiles == IF exists(lake, "actions")
                     THEN sorted(DOMAIN lake["actions"])
                     ELSE <<>>
    IN  IF Len(listFiles) > 0
        THEN SetMax(lake["actions"][listFiles[Len(listFiles)]])
        ELSE 1

\* ------------------------------------------------------------ get_max_id_adl
get_max_id_adl(lake) ==
    LET listFiles == IF exists(lake, "actions")
                     THEN sorted(DOMAIN lake["actions"])
                     ELSE <<>>
    IN  IF Len(listFiles) > 0
        THEN SetMax(lake["actions"][listFiles[Len(listFiles)]])
        ELSE 0

\* get_max_id_adl lines 135-138: pd.read_csv(f) or df.id raises on the file
\* that is opened, the last of the sorted listing.
Unreadable(lake) ==
    /\ exists(lake, "actions")
    /\ DOMAIN lake["actions"] # {}
    /\ LET listFiles == sorted(DOMAIN lake["actions"])
       IN  listFiles[Len(listFiles)] \in corrupt

\* Mutant of push_to_adl: the file name carries the number of files the
\* directory holds, so a second write makes a second file.
push_to_adl_Numbered(lake, kind, df, time, lo, hi) ==
    LET dir == Files(lake, kind)
        fileName == FileName(time, lo, hi) \o str(Cardinality(DOMAIN dir))
        written == [n \in DOMAIN dir \cup {fileName} |->
                       IF n = fileName THEN df ELSE dir[n]]
    IN  [k \in DOMAIN lake \cup {kind} |-> IF k = kind THEN written ELSE lake[k]]

\* --------------------------------------------------------------- push_to_adl
push_to_adl(lake, kind, df, time, lo, hi) ==
    LET fileName == FileName(time, lo, hi)
        dir == Files(lake, kind)
        written == [n \in DOMAIN dir \cup {fileName} |->
                       IF n = fileName THEN df ELSE dir[n]]
    IN  [k \in DOMAIN lake \cup {kind} |-> IF k = kind THEN written ELSE lake[k]]

\* ------------------------------------------------------------- normalisation
\* Largest number of rows of a table that is normalised.
MaxRows == 3

\* main lines 238-241: the fixed column lists.
actions_cols ==
    <<"id", "in_venue", "invisible_date_time", "request_date_time",
      "resource_major", "resource_minor", "session_id", "sort_order",
      "type_major", "type_minor", "yinzid">>
sessions_cols ==
    <<"actions", "app_id", "app_version", "carrier", "device_adid",
      "device_generated_id", "device_id", "end_date_time",
      "hardware_device_id", "id", "mcc", "mdn", "mnc", "os_version",
      "start_date_time">>
geoip_cols ==
    <<"city_geoname_id", "city_name", "continent_code",
      "continent_geoname_id", "continent_name", "country_code",
      "country_geoname_id", "country_name", "id", "postal_code",
      "session_device_generated_id", "subdivision1_code",
      "subdivision1_geoname_id", "subdivision1_name", "subdivision2_code",
      "subdivision2_geoname_id", "subdivision2_name", "subdivision3_code",
      "subdivision3_geoname_id", "subdivision3_name", "subdivision4_code",
      "subdivision4_geoname_id", "subdivision4_name", "time_zone">>
hardware_cols ==
    <<"id", "manufacturer", "model", "platform", "screen_width",
      "screen_height">>

cols(kind) ==
    CASE kind = "actions" -> actions_cols
      [] kind = "sessions" -> sessions_cols
      [] kind = "geoip" -> geoip_cols
      [] kind = "hardware" -> hardware_cols

Range(seq) == {seq[i] : i \in DOMAIN seq}

\* The rows of `rows` at the indices of `keep`, in their order.
RECURSIVE RowsAt(_, _)
RowsAt(rows, keep) ==
    IF rows = <<>> THEN <<>>
    ELSE LET front == RowsAt(SubSeq(rows, 1, Len(rows) - 1), keep)
         IN  IF Len(rows) \in keep THEN Append(front, rows[Len(rows)]) ELSE front

\* DataFrame.drop_duplicates(keep='last'): a row is dropped when a later row
\* has the same value in every column.
drop_duplicates(rows) ==
    RowsAt(rows, {i \in DOMAIN rows :
                     \A j \in (i + 1) .. Len(rows) : rows[j] # rows[i]})

\* df[columns] raises KeyError when a column is missing.
HasColumns(header, wanted) == Range(wanted) \subseteq Range(header)

\* df[columns]: the rows restricted to the wanted columns.
Projection(rows, wanted) ==
    [i \in DOMAIN rows |-> [c \in Range(wanted) |-> rows[i][c]]]

\* Mutant of Lenient: no kind is treated leniently.
LenientNone(kind) == FALSE

\* main lines 244-247: the projection of geoip is inside try/except.
Lenient(kind) == kind = "geoip"

\* No table is being normalised.
NoTable == [stage |-> "none"]

\* A field the API's records carry beside the fixed columns.
NewField == "new_field"

\* How the records of a kind can come: with the kind's fixed columns, with
\* the fixed columns and a further one, with the fixed columns but the last,
\* with the fixed columns in another order.
Shapes == {"fixed", "further", "short", "reordered"}

\* The column list of a kind's records of a shape.
Columns(kind, shape) ==
    CASE shape = "fixed" -> cols(kind)
      [] shape = "further" -> Append(cols(kind), NewField)
      [] shape = "short" -> SubSeq(cols(kind), 1, Len(cols(kind)) - 1)
      [] shape = "reordered" -> Tail(cols(kind)) \o <<Head(cols(kind))>>

Schemas(kind) == {Columns(kind, shape) : shape \in Shapes}

\* Every kind comes with its fixed columns.
FixedSchema ==
    [k \in {"actions", "sessions", "geoip", "hardware"} |-> "fixed"]

\* Mutant of Projected: the tables are written with the columns they came
\* with.
ProjectedAsCame(incoming) == incoming

\* main lines 242-248 on the columns: a kind that has its fixed columns is
\* projected to them, geoip is otherwise left as it came.
Projected(incoming) ==
    [k \in DOMAIN incoming |->
        IF HasColumns(Columns(k, incoming[k]), cols(k))
        THEN "fixed" ELSE incoming[k]]

\* Mutant of KeyError: every projection is inside try/except.
KeyErrorCaught(incoming) == FALSE

\* main lines 242-248: a projection raises KeyError and nothing catches it.
KeyError(incoming) ==
    \E k \in DOMAIN incoming :
        ~HasColumns(Columns(k, incoming[k]), cols(k)) /\ ~Lenient(k)

\* The rows of a table with these columns: records differ in their id, in the
\* value of their other fixed columns, and in the value of a further column.
Rows(header) ==
    { [c \in Range(header) |->
          IF c = "id" THEN i ELSE IF c = NewField THEN e ELSE v] :
      i \in 1 .. 2, v \in 0 .. 1, e \in 0 .. 1 }

RowSeqs(header) ==
    UNION {[1 .. n -> Rows(header)] : n \in 0 .. MaxRows}

\* The tables of a kind get_data can hand to the normalisation.
Tables(kind) ==
    UNION { { [kind |-> kind, columns |-> c, rows |-> r,
               stage |-> "concatenated"] : r \in RowSeqs(c) } :
            c \in Schemas(kind) }

\* The second instance of the script before it is started.
NoInstance == [pc |-> "idle"]

\* ingest-profiles-csv.py and meta-load.py before they are started.
NoProfiles == [pc |-> "idle"]
NoMeta == [pc |-> "idle"]

\* ---------------------------------------------------------------------- Init
\* The remote source holds a range of identifiers, with or without a gap after
\* its first one.
RemoteSets ==
    UNION {{lo .. hi, (lo .. hi) \ {lo + 1}} : lo \in 1 .. MaxId, hi \in 0 .. MaxId}

\* get_data's locals outside a call.
GetDataIdle ==
    /\ newMaxId = 0 /\ value_count = 0 /\ maxRecords = 0
    /\ lists = EmptyTables /\ url = NoUrl /\ retry = 0 /\ status_code = 0
    /\ content = NoContent

\* main's variables before the script is started.
MainIdle ==
    /\ now = 9 /\ runs = 0
    /\ currentRunTime = 0 /\ num_of_records = 0 /\ maxId = 0
    /\ dfs = EmptyTables /\ minAct = 0 /\ maxAct = 0 /\ collection = 0
    /\ gets = 0 /\ got = {} /\ attempts = <<>> /\ outcome = "none"
    /\ requested = 0
    /\ max_value_count = 0
    /\ exhausted = FALSE
    /\ GetDataIdle

Init ==
    /\ remote \in RemoteSets
    /\ adl \in {[k \in {} |-> <<>>], [k \in {"actions"} |-> <<>>]}
    /\ pc = "start"
    /\ MainIdle
    /\ table = NoTable
    /\ corrupt = {}
    /\ schema = FixedSchema /\ columns = schema
    /\ second = NoInstance
    /\ profiles = NoProfiles /\ meta = NoMeta

\* get_data's locals go out of scope.
LeaveGetData ==
    /\ newMaxId' = 0 /\ value_count' = 0 /\ maxRecords' = 0
    /\ lists' = EmptyTables /\ url' = NoUrl /\ retry' = 0 /\ status_code' = 0
    /\ content' = NoContent

\* ------------------------------------------------------------------- main
\* The script is started (by its scheduler) with the current time; the clock
\* never runs backwards, and a start may fall on the timestamp of the start
\* before it or on the next one.
StartRun ==
    /\ pc \in {"start", "done", "raised"}
    /\ runs < MaxRuns
    /\ \E t \in (IF runs = 0 THEN {now} ELSE {now, now + 1}) :
          /\ now' = t
          /\ currentRunTime' = t
    /\ runs' = runs + 1
    /\ num_of_records' = MAX_RECORDS_PER_FILE
    /\ maxId' = 0 /\ dfs' = EmptyTables /\ minAct' = 0 /\ maxAct' = 0
    /\ collection' = 0
    /\ gets' = 0 /\ got' = {} /\ attempts' = <<>> /\ outcome' = "none"
    /\ requested' = 0
    /\ LeaveGetData
    /\ pc' = "resolve"
    /\ columns' = schema
    /\ UNCHANGED <<table, corrupt, schema, max_value_count, second, profiles, meta, remote, adl>>
    /\ exhausted' = FALSE

\* Mutant of FirstStartId: the first request starts at the watermark itself.
FirstStartIdAtWatermark(m) == m

\* get_data line 42: newMaxId = maxId + 1.
FirstStartId(m) == m + 1

\* main lines 197-204: resolve the watermark, enter get_data (lines 42-51).
ResolveWatermark ==
    /\ pc = "resolve"
    /\ IF Unreadable(adl)
       THEN \* the exception leaves get_max_id_adl and main
            /\ pc' = "raised"
            /\ UNCHANGED <<maxId, newMaxId, value_count, maxRecords, lists,
                           max_value_count>>
       ELSE /\ maxId' = get_max_id_adl(adl)
            /\ max_value_count' = MAX_RECORDS_PER_FILE
            /\ newMaxId' = FirstStartId(maxId')
            /\ value_count' = 0
            /\ maxRecords' = limit
            /\ lists' = EmptyTables
            /\ pc' = "page"
    /\ got' = {} /\ attempts' = <<>> /\ outcome' = "none"
    /\ requested' = 0
    /\ UNCHANGED <<table, corrupt, schema, columns, second, profiles, meta, remote, adl, now, runs,
                   currentRunTime, num_of_records, dfs, minAct, maxAct,
                   collection, url, retry, status_code, content, gets>>
    /\ exhausted' = FALSE

\* get_data lines 114-124: the return, and main's assignment of the result.
Return(count, tables) ==
    /\ num_of_records' = count
    /\ dfs' = IF count > 0 THEN tables ELSE EmptyTables
    /\ LeaveGetData
    /\ pc' = "fetched"

\* Mutant of MorePages: the count is compared with the page limit instead of
\* the ceiling.
MorePagesBelowLimit(records, count) == records >= limit /\ count < limit

\* Mutant of MorePages: the loop goes on after any page that is not empty.
MorePagesNonEmpty(records, count) == records > 0 /\ count < max_value_count

\* Mutant of MorePages: a page of exactly `limit` records ends the loop.
MorePagesStrict(records, count) == records > limit /\ count < max_value_count

\* get_data line 54: the pagination loop's test.
MorePages(records, count) == records >= limit /\ count < max_value_count

\* get_data lines 54-61: the pagination loop's test and a page's set-up.
PageLoop ==
    /\ pc = "page"
    /\ IF MorePages(maxRecords, value_count)
       THEN /\ url' = [startId |-> newMaxId, maxRecords |-> maxRecords]
            /\ retry' = RetryBudget
            /\ status_code' = 0
            /\ content' = NoContent
            /\ attempts' = <<>>
            /\ outcome' = "none"
            /\ requested' = requested + 1
            /\ pc' = "get"
            /\ UNCHANGED <<num_of_records, dfs, newMaxId, value_count,
                           maxRecords, lists>>
       ELSE /\ Return(value_count, lists)
            /\ UNCHANGED <<attempts, outcome, requested>>
    /\ UNCHANGED <<table, corrupt, schema, columns, max_value_count, second, exhausted, profiles, meta, remote, adl, now, runs, currentRunTime, maxId, minAct,
                   maxAct, collection, got, gets>>

\* get_data line 77: a timed-out call.
AfterTimeout(r) == r - 1
\* Mutant of AfterParseError: a body that does not parse costs no attempt.
AfterParseErrorFree(r) == r

\* get_data line 86: a body that is no JSON.
AfterParseError(r) == r - 1
\* get_data line 91: a parsed body.
AfterParsed(r) == 0

\* get_data line 84: response.json().
Parse(resp, request) ==
    IF resp.body = "page"
    THEN [kind |-> "page", tables |-> ApiPage(request.startId, request.maxRecords)]
    ELSE [kind |-> "error", tables |-> EmptyTables]

\* get_data lines 64-91: one pass of the retry loop, one HTTP GET.
AttemptGet(resp) ==
    /\ pc = "get"
    /\ retry > 0
    /\ attempts' = Append(attempts, url.startId)
    /\ gets' = IF gets < MaxGets THEN gets + 1 ELSE gets
    /\ IF resp.kind = "timeout"
       THEN /\ retry' = AfterTimeout(retry)
            /\ outcome' = "timeout"
            /\ UNCHANGED <<status_code, content, got>>
       ELSE /\ status_code' = resp.status
            /\ IF resp.body = "garbage"
               THEN /\ retry' = AfterParseError(retry)
                    /\ outcome' = "parse_error"
                    /\ UNCHANGED <<content, got>>
               ELSE /\ content' = Parse(resp, url)
                    /\ retry' = AfterParsed(retry)
                    /\ outcome' = "parsed"
                    /\ got' = IF content'.kind = "page"
                                  /\ content'.tables["actions"] # {}
                               THEN got \cup {content'.tables}
                               ELSE got
    /\ pc' = IF retry' > 0 THEN "get" ELSE "process"
    /\ UNCHANGED <<table, corrupt, schema, columns, max_value_count, second, exhausted, profiles, meta, requested, remote, adl, now, runs, currentRunTime, num_of_records,
                   maxId, dfs, minAct, maxAct, collection, newMaxId,
                   value_count, maxRecords, lists, url>>

Get == \E resp \in Responses2xx \cup ResponsesNon2xx : AttemptGet(resp)

\* get_data lines 99-104: a non-empty page is accumulated.
Accumulate(acc, page) == [k \in DOMAIN acc |-> acc[k] \cup page[k]]

\* Mutant of Exhausted: what was accumulated is dropped.
ExhaustedDiscards == Return(0, EmptyTables)

\* get_data lines 109-112: no content after the retry loop.
Exhausted == Return(value_count, lists)

\* Mutant of NextStartId: the next request starts at the page's highest
\* identifier.
NextStartIdAtMax(actions) == SetMax(actions)

\* get_data line 100: actions.id.astype(int).max() + 1.
NextStartId(actions) == SetMax(actions) + 1

\* get_data lines 94-112: what follows the retry loop.
ProcessPage ==
    /\ pc = "process"
    /\ IF content.kind = "page"
       THEN LET actions == content.tables["actions"] IN
            /\ maxRecords' = Cardinality(actions)
            /\ IF maxRecords' > 0
               THEN /\ value_count' = value_count + maxRecords'
                    /\ newMaxId' = NextStartId(actions)
                    /\ lists' = Accumulate(lists, content.tables)
               ELSE UNCHANGED <<value_count, newMaxId, lists>>
            /\ pc' = "page"
            /\ UNCHANGED <<num_of_records, dfs, url, retry, status_code,
                           content, exhausted>>
       ELSE IF content.kind = "error"
       THEN \* content['actions'] raises KeyError, which nothing catches
            /\ pc' = "raised"
            /\ LeaveGetData
            /\ UNCHANGED <<num_of_records, dfs, exhausted>>
       ELSE \* the budget is spent and nothing was parsed
            /\ Exhausted
            /\ exhausted' = TRUE
    /\ UNCHANGED <<table, corrupt, schema, columns, max_value_count, second, profiles, meta, requested, remote, adl, now, runs, currentRunTime, maxId, minAct,
                   maxAct, collection, got, gets, attempts, outcome>>

\* Mutant of NoNewRecords: the loop goes on to another iteration.
NoNewRecordsContinue == "resolve"

\* main lines 301-303: no record was returned, break.
NoNewRecords == "done"

\* main lines 207-262 and 301-303: min and max identifier, normalisation.
AfterFetch ==
    /\ pc = "fetched"
    /\ IF num_of_records > 0
       THEN IF KeyError(schema)
            THEN /\ pc' = "raised"
                 /\ UNCHANGED <<minAct, maxAct, collection, columns>>
            ELSE /\ minAct' = SetMin(dfs["actions"])
                 /\ maxAct' = SetMax(dfs["actions"])
                 /\ columns' = Projected(schema)
                 /\ collection' = 1
                 /\ pc' = "push"
       ELSE /\ pc' = NoNewRecords
            /\ UNCHANGED <<minAct, maxAct, collection, columns>>
    /\ got' = {} /\ attempts' = <<>> /\ outcome' = "none" /\ requested' = 0
    /\ UNCHANGED <<table, corrupt, schema, max_value_count, second, exhausted, profiles, meta, remote, adl, now, runs,
                   currentRunTime, num_of_records, maxId, dfs, newMaxId,
                   value_count, maxRecords, lists, url, retry, status_code,
                   content, gets>>

\* main lines 265-268: one pass of the loop over the four kinds.
Push ==
    /\ pc = "push"
    /\ adl' = push_to_adl(adl, Kinds[collection], dfs[Kinds[collection]],
                          currentRunTime, minAct, maxAct)
    /\ corrupt' = IF Kinds[collection] = "actions"
                  THEN corrupt \ {FileName(currentRunTime, minAct, maxAct)}
                  ELSE corrupt
    /\ IF collection < Len(Kinds)
       THEN collection' = collection + 1 /\ pc' = "push"
       ELSE collection' = 0 /\ pc' = "pushed"
    /\ UNCHANGED <<table, schema, columns, max_value_count, second, exhausted, profiles, meta, requested, remote, now, runs, currentRunTime, num_of_records, maxId,
                   dfs, minAct, maxAct, newMaxId, value_count, maxRecords, lists,
                   url, retry, status_code, content, attempts, outcome, got, gets>>

\* main line 195: the loop's test after an iteration that wrote.
LoopTest ==
    /\ pc = "pushed"
    /\ pc' = IF num_of_records = MAX_RECORDS_PER_FILE THEN "resolve" ELSE "done"
    /\ UNCHANGED <<table, corrupt, schema, columns, max_value_count, second, exhausted, profiles, meta, requested, remote, adl, now, runs, currentRunTime, num_of_records,
                   maxId, dfs, minAct, maxAct, collection, newMaxId,
                   value_count, maxRecords, lists, url, retry, status_code,
                   content, attempts, outcome, got, gets>>

Next ==
    \/ StartRun
    \/ ResolveWatermark
    \/ PageLoop
    \/ Get
    \/ ProcessPage
    \/ AfterFetch
    \/ Push
    \/ LoopTest

Spec == Init /\ [][Next]_vars

\* A stub API: every GET is answered, with the page asked for.  main runs
\* one statement after the other, so a step that is possible is taken.
GetStub == \E resp \in ResponsesStub : AttemptGet(resp)

NextStub ==
    \/ StartRun
    \/ ResolveWatermark
    \/ PageLoop
    \/ GetStub
    \/ ProcessPage
    \/ AfterFetch
    \/ Push
    \/ LoopTest

StubSpec == Init /\ [][NextStub]_vars /\ WF_vars(NextStub)

\* The process is killed in the middle of a run: what it held in memory is
\* lost, the data lake stays as it is.
Kill ==
    /\ pc \in {"resolve", "page", "get", "process", "fetched", "push", "pushed"}
    /\ pc' = "start"
    /\ num_of_records' = 0 /\ maxId' = 0 /\ dfs' = EmptyTables
    /\ minAct' = 0 /\ maxAct' = 0 /\ collection' = 0
    /\ gets' = 0 /\ got' = {} /\ attempts' = <<>> /\ outcome' = "none"
    /\ requested' = 0
    /\ LeaveGetData
    /\ columns' = schema
    /\ UNCHANGED <<table, corrupt, schema, max_value_count, second, profiles, meta, remote, adl, now, runs, currentRunTime>>
    /\ exhausted' = FALSE

NextCrash == Next \/ Kill

CrashSpec == Init /\ [][NextCrash]_vars

\* ------------------------------------------------ files that no longer parse
\* Between two runs the content of an actions file is damaged (a write that
\* was cut short, a file replaced by hand).
Corrupt ==
    /\ pc \in {"done", "raised"}
    /\ runs < MaxRuns
    /\ \E name \in DOMAIN Files(adl, "actions") \ corrupt :
          corrupt' = corrupt \cup {name}
    /\ UNCHANGED <<table, schema, columns, max_value_count, second, exhausted, profiles, meta, remote, adl, now, runs, pc, currentRunTime,
                   num_of_records, maxId, dfs, minAct, maxAct, collection,
                   newMaxId, value_count, maxRecords, lists, url, retry,
                   status_code, content, attempts, outcome, got, gets,
                   requested>>

NextCorrupt == NextStub \/ Corrupt

CorruptSpec == Init /\ [][NextCorrupt]_vars

\* Everything but the second instance.
first_vars ==
    <<table, corrupt, schema, columns, max_value_count, remote, adl, now, runs,
      pc, currentRunTime, num_of_records, maxId, dfs, minAct, maxAct,
      collection, newMaxId, value_count, maxRecords, lists, url, retry,
      status_code, content, attempts, outcome, got, gets, requested,
      exhausted, profiles, meta>>

\* ------------------------------------------------ two instances of the script
\* get_data against an API that answers every request: the tables it returns,
\* from the pagination loop's variables.
RECURSIVE get_data_answered(_, _, _, _)
get_data_answered(start, records, count, acc) ==
    IF MorePages(records, count)
    THEN LET page == ApiPage(start, records)
             size == Cardinality(page["actions"])
         IN  IF size > 0
             THEN get_data_answered(SetMax(page["actions"]) + 1, size,
                                    count + size, Accumulate(acc, page))
             ELSE acc
    ELSE acc

\* A second instance is started, after the first, with a later start time,
\* and resolves its watermark (main lines 197-198).
Resolve2 ==
    /\ second.pc = "idle"
    /\ pc \in {"resolve", "page", "get", "process", "fetched", "push", "pushed"}
    /\ second' = [pc |-> "resolved", time |-> currentRunTime + 1,
                  maxId |-> get_max_id_adl(adl), dfs |-> EmptyTables]
    /\ UNCHANGED first_vars

\* The second instance's get_data (main lines 203-204); the ceiling is main's.
Fetch2 ==
    /\ second.pc = "resolved"
    /\ max_value_count = MAX_RECORDS_PER_FILE
    /\ second' = [second EXCEPT
                     !.pc = "fetched",
                     !.dfs = get_data_answered(FirstStartId(second.maxId),
                                               limit, 0, EmptyTables)]
    /\ UNCHANGED first_vars

\* The second instance's pushes (main lines 264-268), one kind after the other.
RECURSIVE PushAll(_, _, _, _)
PushAll(lake, n, tables, time) ==
    IF n > Len(Kinds) THEN lake
    ELSE PushAll(push_to_adl(lake, Kinds[n], tables[Kinds[n]], time,
                             SetMin(tables["actions"]),
                             SetMax(tables["actions"])),
                 n + 1, tables, time)

\* main lines 207-303 of the second instance: the four kinds are written, or
\* nothing when no record was returned.
Push2 ==
    /\ second.pc = "fetched"
    /\ adl' = IF second.dfs["actions"] # {}
              THEN PushAll(adl, 1, second.dfs, second.time)
              ELSE adl
    /\ second' = [second EXCEPT !.pc = "done"]
    /\ UNCHANGED <<table, corrupt, schema, columns, max_value_count, exhausted, profiles, meta, remote,
                   now, runs, pc, currentRunTime, num_of_records, maxId, dfs,
                   minAct, maxAct, collection, newMaxId, value_count,
                   maxRecords, lists, url, retry, status_code, content,
                   attempts, outcome, got, gets, requested>>

ConcNext ==
    \/ NextStub
    \/ Resolve2
    \/ Fetch2
    \/ Push2

ConcSpec == Init /\ [][ConcNext]_vars

\* ------------------------------------------------------- get_data by itself
\* Largest ceiling get_data is called with.
MaxCeiling == 7

\* get_data lines 39-51: a call with a watermark and a ceiling.
CallGetData ==
    /\ pc = "start"
    /\ \E m \in 0 .. 2, max_value \in 1 .. MaxCeiling :
          /\ maxId' = m
          /\ max_value_count' = max_value
          /\ newMaxId' = FirstStartId(m)
    /\ value_count' = 0
    /\ maxRecords' = limit
    /\ lists' = EmptyTables
    /\ pc' = "page"
    /\ UNCHANGED <<table, corrupt, schema, columns, second, profiles, meta, remote, adl, now, runs,
                   currentRunTime, num_of_records, dfs, minAct, maxAct,
                   collection, url, retry, status_code, content, attempts,
                   outcome, got, gets, requested>>
    /\ exhausted' = FALSE

FetchNext ==
    \/ CallGetData
    \/ PageLoop
    \/ Get
    \/ ProcessPage

FetchSpec == Init /\ [][FetchNext]_vars

\* The records of each kind come with the kind's fixed columns, with a further
\* column, without the last of the fixed columns, or in another order.
SchemaInit ==
    /\ remote \in {1 .. hi : hi \in 0 .. MaxId}
    /\ adl = <<>>
    /\ pc = "start"
    /\ MainIdle
    /\ table = NoTable
    /\ corrupt = {}
    /\ schema \in [{"actions", "sessions", "geoip", "hardware"} -> Shapes]
    /\ columns = schema
    /\ second = NoInstance
    /\ profiles = NoProfiles /\ meta = NoMeta

SchemaSpec == SchemaInit /\ [][NextStub]_vars

\* The API starts to deliver the records of one kind in another shape, between
\* two iterations or between two runs.
SchemaChange ==
    /\ pc \in {"pushed", "done", "raised"}
    /\ runs < MaxRuns \/ pc = "pushed"
    /\ schema = FixedSchema
    /\ \E k \in DOMAIN schema, shape \in Shapes \ {"fixed"} :
          schema' = [schema EXCEPT ![k] = shape]
    /\ UNCHANGED <<table, corrupt, columns, max_value_count, second, exhausted,
                   profiles, meta,
                   remote, adl, now, runs, pc, currentRunTime, num_of_records,
                   maxId, dfs, minAct, maxAct, collection, newMaxId,
                   value_count, maxRecords, lists, url, retry, status_code,
                   content, attempts, outcome, got, gets, requested>>

NextChange == NextStub \/ SchemaChange

ChangeSpec == Init /\ [][NextChange]_vars

\* ------------------------------------------------- the normalisation alone
\* Everything but the table that is normalised.
main_vars ==
    <<remote, adl, now, runs, pc, currentRunTime, num_of_records, maxId, dfs,
      minAct, maxAct, collection, newMaxId, value_count, maxRecords, lists,
      url, retry, status_code, content, attempts, outcome, got, gets,
      requested, corrupt, schema, columns, max_value_count, second,
      exhausted, profiles, meta>>

\* main lines 233-236: dfs[kind] = dfs[kind].drop_duplicates(keep='last').
DropDuplicates ==
    /\ table.stage = "concatenated"
    /\ table' = [table EXCEPT !.rows = drop_duplicates(table.rows),
                              !.stage = "deduplicated"]
    /\ UNCHANGED main_vars

\* main lines 242-248: dfs[kind] = dfs[kind][kind_cols]; a KeyError is caught
\* for geoip only.
Project ==
    /\ table.stage = "deduplicated"
    /\ table' =
         IF HasColumns(table.columns, cols(table.kind))
         THEN [table EXCEPT !.rows = Projection(table.rows, cols(table.kind)),
                            !.columns = cols(table.kind),
                            !.stage = "projected"]
         ELSE IF Lenient(table.kind)
         THEN [table EXCEPT !.stage = "unprojected"]
         ELSE [table EXCEPT !.stage = "raised"]
    /\ UNCHANGED main_vars

NormInit ==
    /\ \E n \in DOMAIN Kinds : table \in Tables(Kinds[n])
    /\ remote = {} /\ adl = <<>> /\ pc = "normalise"
    /\ corrupt = {}
    /\ schema = FixedSchema /\ columns = schema
    /\ second = NoInstance
    /\ profiles = NoProfiles /\ meta = NoMeta
    /\ MainIdle

NormNext == DropDuplicates \/ Project

NormSpec == NormInit /\ [][NormNext]_vars

\* ------------------------------------------------- ingest-profiles-csv.py
\* Everything of get_data_by_id.py.
ingest_vars ==
    <<remote, adl, now, runs, pc, currentRunTime, num_of_records, maxId, dfs,
      minAct, maxAct, collection, newMaxId, value_count, maxRecords, lists,
      url, retry, status_code, content, attempts, outcome, got, gets,
      requested, table, corrupt, schema, columns, max_value_count, second,
      exhausted>>

\* Everything of get_data_by_id.py before it is started.
IngestIdle ==
    /\ remote = {} /\ adl = <<>> /\ pc = "idle"
    /\ table = NoTable /\ corrupt = {}
    /\ schema = FixedSchema /\ columns = schema
    /\ second = NoInstance
    /\ MainIdle

\* IngestUserProfiles line 108: limit=10000, here 2.
ProfilesLimit == 2

\* Most page requests of one call of IngestUserProfiles.
MaxPages == 4

\* The file of users in the data lake: absent, or what an earlier export wrote.
NoFile == [exists |-> FALSE, users |-> <<>>]
OldFile == [exists |-> TRUE, users |-> <<[page |-> 0, n |-> 0, yinzid |-> TRUE]>>]

\* response.json()['Users'] of a page: up to `limit` user entries, each with
\* or without a yinzid.
UsersRaw(page) ==
    UNION { { [i \in 1 .. k |-> [page |-> page, n |-> i, yinzid |-> i \notin none]] :
              none \in SUBSET (1 .. k) } :
            k \in 0 .. ProfilesLimit }

\* Mutant of FormatUsers: a user without yinzid is left out.
FormatUsersSkips(users) ==
    [raised |-> FALSE,
     user_list |-> [i \in 1 .. Len(SelectSeq(users, LAMBDA u : u.yinzid)) |->
                       SelectSeq(users, LAMBDA u : u.yinzid)[i]]]

\* FormatUsers lines 160-203: one formatted user per entry, in order; a user
\* whose yinzid is None raises.
FormatUsers(users) ==
    IF \E i \in DOMAIN users : ~users[i].yinzid
    THEN [raised |-> TRUE, user_list |-> <<>>]
    ELSE [raised |-> FALSE, user_list |-> users]

\* Mutant of NoMoreRecords: only an empty page ends the loop.
NoMoreRecordsWhenEmpty(n) == n = 0

\* IngestUserProfiles line 137: len(users_json) < 10000.
NoMoreRecords(n) == n < ProfilesLimit

\* IngestUserProfiles lines 102-121: the GET of a page fails
\* (RequestException from http.get or raise_for_status); the handler raises.
PageFails ==
    /\ profiles.pc = "request"
    /\ Len(profiles.urls) < MaxPages
    /\ profiles' = [profiles EXCEPT !.pc = "raised",
                                    !.urls = Append(@, profiles.page),
                                    !.response = "failed",
                                    !.users_raw = <<>>]
    /\ UNCHANGED <<ingest_vars, meta>>

\* IngestUserProfiles lines 102-139: a page is received, formatted and
\* concatenated, and the loop's exit is tested.
PageReceived ==
    /\ profiles.pc = "request"
    /\ Len(profiles.urls) < MaxPages
    /\ \E users_raw \in UsersRaw(profiles.page) :
          LET users_json == FormatUsers(users_raw) IN
          profiles' =
            IF users_json.raised
            THEN [profiles EXCEPT !.pc = "raised",
                                  !.urls = Append(@, profiles.page),
                                  !.response = "users",
                                  !.users_raw = users_raw]
            ELSE [profiles EXCEPT
                    !.pc = IF NoMoreRecords(Len(users_json.user_list))
                           THEN "export" ELSE "request",
                    !.urls = Append(@, profiles.page),
                    !.response = "users",
                    !.users_raw = users_raw,
                    !.UserDF = @ \o users_json.user_list,
                    !.page = @ + 1]
    /\ UNCHANGED <<ingest_vars, meta>>

\* IngestUserProfiles line 148, ExportCSVtoADL lines 215-231: the file of
\* users is opened for writing and the whole table written.
ExportCSVtoADL ==
    /\ profiles.pc = "export"
    /\ profiles' = [profiles EXCEPT !.pc = "done",
                                    !.file = [exists |-> TRUE, users |-> profiles.UserDF],
                                    !.exports = @ + 1]
    /\ UNCHANGED <<ingest_vars, meta>>

\* IngestUserProfiles is called with a first page (0 by default) and the
\* data lake holds a file of users or none.
ProfilesInit ==
    /\ IngestIdle
    /\ meta = NoMeta
    /\ profiles \in { [pc |-> "request", first |-> p, page |-> p, UserDF |-> <<>>,
                        urls |-> <<>>, response |-> "none", users_raw |-> <<>>,
                        file |-> f, exports |-> 0] :
                       p \in 0 .. 2, f \in {NoFile, OldFile} }

ProfilesNext == PageFails \/ PageReceived \/ ExportCSVtoADL

ProfilesSpec == ProfilesInit /\ [][ProfilesNext]_vars

\* ------------------------------------------------------------- meta-load.py
\* main lines 36-40: the endpoints, here the first and the last of the five.
url_list == <<"meta-push.csv", "meta-card-views.csv">>

\* Largest length of a file and highest version of a file on the server.
MaxLength == 2
MaxVersion == 3

\* A file that the data lake does not hold.
Absent == [exists |-> FALSE, version |-> 0, length |-> 0]

\* main lines 52-56: the two sizes that are compared.
file_size_datalake(file_name) ==
    IF meta.lake[file_name].exists THEN meta.lake[file_name].length ELSE 0

file_size_server(file_name) == meta.server[file_name].length

\* main lines 43-70: one pass of the loop over url_list.
Transfer ==
    /\ meta.pc = "loop"
    /\ LET file_name == url_list[meta.i]
           data == meta.server[file_name]
       IN  meta' = [meta EXCEPT
                      !.lake[file_name] =
                          IF file_size_server(file_name) > file_size_datalake(file_name)
                          THEN [exists |-> TRUE, version |-> data.version,
                                length |-> data.length]
                          ELSE @,
                      !.i = IF meta.i < Len(url_list) THEN @ + 1 ELSE 1,
                      !.pc = IF meta.i < Len(url_list) THEN "loop" ELSE "done"]
    /\ UNCHANGED <<ingest_vars, profiles>>

\* A file is updated on the server, to a content of any length, and the
\* script is run again.
ServerUpdate ==
    /\ meta.pc = "done"
    /\ \E file_name \in DOMAIN meta.server, n \in 1 .. MaxLength :
          /\ meta.server[file_name].version < MaxVersion
          /\ meta' = [meta EXCEPT
                         !.server[file_name] =
                             [version |-> @.version + 1, length |-> n],
                         !.pc = "loop"]
    /\ UNCHANGED <<ingest_vars, profiles>>

\* The first run: the server holds its files, the data lake none.
MetaInit ==
    /\ IngestIdle
    /\ profiles = NoProfiles
    /\ meta \in { [pc |-> "loop", i |-> 1, server |-> sv,
                    lake |-> [f \in {url_list[k] : k \in DOMAIN url_list} |-> Absent]] :
                   sv \in [{url_list[k] : k \in DOMAIN url_list} ->
                             {[version |-> 1, length |-> n] : n \in 1 .. MaxLength}] }

MetaNext == Transfer \/ ServerUpdate

MetaSpec == MetaInit /\ [][MetaNext]_vars

\* ------------------------------------------------------------ what is checked
\* Every identifier held by an actions file of the data lake.
Ingested == UNION {Files(adl, "actions")[n] : n \in DOMAIN Files(adl, "actions")}

\* The actions files that hold identifier i.
UnitsOf(i) == {n \in DOMAIN Files(adl, "actions") : i \in adl["actions"][n]}

\* The tables of the pages received in this call, put together.
Received == [k \in DOMAIN EmptyTables |-> UNION {p[k] : p \in got}]

\* The last `retry` budget of a page was used up by failures.
PageExhausted ==
    /\ Len(attempts) = RetryBudget
    /\ outcome \in {"timeout", "parse_error"}

\* C1: after every iteration that wrote a checkpoint, the watermark resolved
\* from the data lake is strictly greater than the one the iteration began
\* with.
C1_WatermarkAdvances ==
    pc = "pushed" => get_max_id_adl(adl) > maxId

\* C2: after a run, every identifier the remote source offers up to the
\* watermark is held by exactly one actions file: none is missing, none is
\* held by two files.
C2_ExactlyOneUnit ==
    pc = "done" =>
        \A i \in remote :
            i <= get_max_id_adl(adl) => Cardinality(UnitsOf(i)) = 1

\* C3: get_max_id_adl returns the highest identifier held by any actions file
\* (0 when there is none).
C3_ReturnsHighest ==
    get_max_id_adl(adl) = IF Ingested = {} THEN 0 ELSE SetMax(Ingested)

\* C4: with a finite remote source that does not grow, a run's loop ends in
\* DONE.
C4_Terminates ==
    (pc = "resolve") ~> (pc = "done")

\* C5: the watermark of an iteration is the one the data lake gives, the first
\* page request of the iteration starts one past it, and no request starts at
\* or below it.
C5_FirstRequest ==
    pc \in {"get", "process"} =>
        /\ maxId = get_max_id_adl(adl)
        /\ url.startId > maxId
        /\ value_count = 0 => url.startId = maxId + 1

C5_Witness ==
    /\ pc = "process"
    /\ value_count = 0
    /\ maxId > 0
    /\ Len(attempts) > 0
    /\ content.kind = "page"

\* C6: a page gets at most 5 GETs; a timed-out call and a body that does not
\* parse each take one from the same budget, which starts at 5 for every page;
\* every GET of a page asks for the same startId.
C6_RetryBudget ==
    /\ Len(attempts) <= RetryBudget
    /\ pc = "get" => retry = RetryBudget - Len(attempts)
    /\ pc = "get" /\ attempts # <<>> => outcome \in {"timeout", "parse_error"}
    /\ \A i, j \in DOMAIN attempts : attempts[i] = attempts[j]

C6_Witness ==
    /\ pc = "process"
    /\ Len(attempts) = RetryBudget
    /\ status_code # 0
    /\ outcome = "timeout"
    /\ value_count > 0

\* C7: when a page has failed 5 times, get_data returns, without raising, the
\* count and the tables of all the pages it received before.
C7_ExhaustionKeepsPartial ==
    PageExhausted /\ pc \notin {"get", "process"} =>
        /\ pc = "fetched"
        /\ num_of_records = Cardinality(Received["actions"])
        /\ dfs = Received

C7_Witness ==
    /\ PageExhausted
    /\ pc = "fetched"
    /\ num_of_records > limit

\* C8: a response whose status is not 2xx takes one from the page's retry
\* budget, as a body that does not parse does, and is never taken as the
\* page's content.
C8_Non2xxConsumesAttempt ==
    (attempts # <<>> /\ outcome # "timeout" /\ status_code # 0
        /\ status_code \notin 200 .. 299) =>
        /\ outcome = "parse_error"
        /\ content.kind = "none"

\* C9: after a kill and a restart, once the run is done, every range that has
\* an actions file has a file of each of the other three kinds.
C9_AllKindsPresent ==
    pc = "done" =>
        \A n \in DOMAIN Files(adl, "actions") :
            \A k \in DOMAIN EmptyTables : n \in DOMAIN Files(adl, k)

\* C10: when the API answers two calls with exactly `limit` records and the
\* third with none, the run issues exactly 3 GETs and ends in DONE.
C10_StubTermination ==
    /\ [](runs = 1 /\ Cardinality(remote) = 2 * limit => gets <= 3)
    /\ (pc = "resolve" /\ runs = 1 /\ Cardinality(remote) = 2 * limit)
          ~> (pc = "done" /\ runs = 1 /\ gets = 3)

C10_Witness ==
    /\ pc = "done"
    /\ runs = 1
    /\ Cardinality(remote) = 2 * limit
    /\ gets = 3
    /\ Cardinality(Ingested) = 2 * limit

\* The identifiers the remote source holds above the iteration's watermark.
Pending == {i \in remote : i > maxId}

\* C11: when the first page of a call is received and holds fewer than `limit`
\* records, the call requests no second page and returns that page's records.
C11_ShortFirstPage ==
    /\ pc \in {"get", "process"} /\ requested >= 2 => value_count >= limit
    /\ (pc = "fetched" /\ outcome = "parsed" /\ Cardinality(Pending) < limit) =>
          /\ requested = 1
          /\ num_of_records = Cardinality(Pending)
          /\ dfs["actions"] = Pending

C11_Witness ==
    /\ pc = "fetched"
    /\ outcome = "parsed"
    /\ requested = 1
    /\ Cardinality(Pending) = 1
    /\ dfs["actions"] = Pending

\* C12: when the actions directory does not exist or holds no file,
\* get_max_id_adl returns 0 and the first request of the fetch that follows
\* starts at identifier 1.
C12_EmptyBootstrap ==
    DOMAIN Files(adl, "actions") = {} =>
        /\ get_max_id_adl(adl) = 0
        /\ pc \in {"page", "get", "process"} => maxId = 0
        /\ pc \in {"get", "process"} /\ requested = 1 => url.startId = 1

C12_Witness ==
    /\ ~exists(adl, "actions")
    /\ pc = "process"
    /\ requested = 1
    /\ url.startId = 1
    /\ Len(attempts) > 0

\* The same case with a directory that exists and holds no file.
C12_WitnessEmptyDirectory ==
    /\ exists(adl, "actions")
    /\ DOMAIN adl["actions"] = {}
    /\ pc = "process"
    /\ requested = 1

\* C13: push_to_adl called a second time with the same source, kind, table,
\* run timestamp, minId and maxId writes to the same path and leaves the data
\* lake as the first call left it.
C13_PushIdempotent ==
    pc = "push" =>
        LET kind == Kinds[collection]
            name == FileName(currentRunTime, minAct, maxAct)
            once == push_to_adl(adl, kind, dfs[kind], currentRunTime, minAct, maxAct)
            twice == push_to_adl(once, kind, dfs[kind], currentRunTime, minAct, maxAct)
        IN  /\ twice = once
            /\ DOMAIN once[kind] = DOMAIN Files(adl, kind) \cup {name}
            /\ once[kind][name] = dfs[kind]
            /\ (name \in DOMAIN Files(adl, kind) /\ adl[kind][name] = dfs[kind])
                  => once = adl

\* The program is about to write a file it has already written, with the same
\* table.
C13_Witness ==
    /\ pc = "push"
    /\ FileName(currentRunTime, minAct, maxAct) \in DOMAIN Files(adl, Kinds[collection])
    /\ adl[Kinds[collection]][FileName(currentRunTime, minAct, maxAct)]
          = dfs[Kinds[collection]]

\* C14: a table that was normalised (duplicates dropped, then projected to the
\* kind's fixed columns) never holds two rows that are equal on every fixed
\* column, whether or not the incoming rows carried further columns.
C14_OneRowPerGroup ==
    table.stage = "projected" =>
        \A i, j \in DOMAIN table.rows : table.rows[i] = table.rows[j] => i = j

\* What holds of the code: after drop_duplicates no two rows are equal in
\* every column they came with.
C14_ExactDuplicatesDropped ==
    table.stage = "deduplicated" =>
        \A i, j \in DOMAIN table.rows : table.rows[i] = table.rows[j] => i = j

\* The most recent actions file: the one of the latest run time and, among
\* the files of that run time, the one written for the highest identifiers
\* (a run's segments are written in the order of their identifiers).
MostRecentUnit ==
    LET dir == Files(adl, "actions")
        stamp(name) == SubSeq(name, 1, 2)
    IN  CHOOSE name \in DOMAIN dir :
            \A other \in DOMAIN dir :
                \/ StrLess(stamp(other), stamp(name))
                \/ /\ stamp(other) = stamp(name)
                   /\ SetMax(dir[other]) <= SetMax(dir[name])

\* The file get_max_id_adl opens: the last one by name.
OpenedUnit ==
    CHOOSE name \in DOMAIN Files(adl, "actions") :
        \A other \in DOMAIN Files(adl, "actions") :
            other = name \/ StrLess(other, name)

\* C15: when the actions directory holds a file and the most recent one does
\* not parse, resolving the watermark raises: the run ends there, no request
\* is prepared or sent, nothing is written, and no watermark (0 or other) is
\* handed to get_data.
C15_CorruptCheckpointFatal ==
    [][(/\ pc = "resolve"
        /\ DOMAIN Files(adl, "actions") # {}
        /\ MostRecentUnit \in corrupt) =>
          /\ pc' = "raised"
          /\ adl' = adl
          /\ gets' = gets /\ requested' = 0
          /\ newMaxId' = 0 /\ url' = NoUrl]_vars

\* What holds of the code: the run ends that way when the file that is opened,
\* the last one by name, does not parse.
C15_OpenedUnitFatal ==
    [][(/\ pc = "resolve"
        /\ DOMAIN Files(adl, "actions") # {}
        /\ OpenedUnit \in corrupt) =>
          /\ pc' = "raised"
          /\ adl' = adl
          /\ gets' = gets /\ requested' = 0
          /\ newMaxId' = 0 /\ url' = NoUrl]_vars

\* The most recent file is damaged and is not the one that is opened.
C15_MostRecentNotOpened ==
    /\ pc = "resolve" /\ runs = 2
    /\ DOMAIN Files(adl, "actions") # {}
    /\ MostRecentUnit \in corrupt
    /\ OpenedUnit # MostRecentUnit

\* The kinds whose records came without one of their fixed columns.
Mismatched ==
    {k \in DOMAIN schema :
        ~(Range(cols(k)) \subseteq Range(Columns(k, schema[k])))}

\* C16: when only geoip came without one of its fixed columns, the tables are
\* normalised with geoip left as it came, and all four kinds are written;
\* when actions, sessions or hardware came without one of their fixed columns
\* the run ends with the exception and nothing is written.
C16_GeoipLeniency ==
    /\ [][(pc = "fetched" /\ num_of_records > 0) =>
            IF Mismatched \subseteq {"geoip"}
            THEN /\ pc' = "push"
                 /\ Columns("geoip", columns'["geoip"])
                       = IF "geoip" \in Mismatched
                         THEN Columns("geoip", schema["geoip"])
                         ELSE geoip_cols
                 /\ \A k \in {"actions", "sessions", "hardware"} :
                       Columns(k, columns'[k]) = cols(k)
            ELSE pc' = "raised" /\ adl' = adl]_vars
    /\ [](pc = "pushed" =>
            \A n \in DOMAIN Kinds :
                /\ exists(adl, Kinds[n])
                /\ FileName(currentRunTime, minAct, maxAct) \in DOMAIN adl[Kinds[n]]
                /\ adl[Kinds[n]][FileName(currentRunTime, minAct, maxAct)]
                      = dfs[Kinds[n]])
    /\ [](pc \in {"push", "pushed"} => Mismatched \subseteq {"geoip"})

\* Geoip came without one of its columns and all four kinds were written,
\* geoip with the columns it came with.
C16_Witness ==
    /\ pc = "pushed"
    /\ Mismatched = {"geoip"}
    /\ Columns("geoip", columns["geoip"]) = Columns("geoip", schema["geoip"])
    /\ Columns("geoip", columns["geoip"]) # geoip_cols
    /\ \A n \in DOMAIN Kinds :
          FileName(currentRunTime, minAct, maxAct) \in DOMAIN Files(adl, Kinds[n])

\* Hardware came without one of its columns: the run ended before any write.
C16_WitnessFatal ==
    /\ pc = "raised" /\ runs = 1
    /\ "hardware" \in Mismatched
    /\ \A n \in DOMAIN Kinds : DOMAIN Files(adl, Kinds[n]) = {}

\* C17: an iteration whose get_data returns 0 records (nothing new, or the
\* first page ran out of attempts) ends the run without a write: from the
\* resolution of the watermark to the end of the run the data lake, and with
\* it the watermark that resolves from it, stay as they were.
C17_ZeroRecordsNoWrite ==
    /\ [][(pc = "fetched" /\ num_of_records = 0) =>
            /\ pc' = "done"
            /\ adl' = adl
            /\ get_max_id_adl(adl') = maxId]_vars
    /\ [][(pc \in {"resolve", "page", "get", "process", "fetched"}) =>
            adl' = adl]_vars
    /\ [](pc = "fetched" => get_max_id_adl(adl) = maxId)

\* A run on a data lake that holds files got nothing new and ended.
C17_Witness ==
    /\ pc = "done" /\ num_of_records = 0
    /\ runs = 2 /\ gets > 0
    /\ DOMAIN Files(adl, "actions") # {}
    /\ get_max_id_adl(adl) = maxId

\* The first page of a fetch ran out of attempts and 0 records were returned.
C17_WitnessExhausted ==
    /\ pc = "fetched" /\ num_of_records = 0
    /\ outcome \in {"timeout", "parse_error"}
    /\ Pending # {}

\* C18: the count one get_data call accumulates never exceeds the ceiling it
\* was called with, whatever the ceiling, and no page is requested once the
\* count has reached the ceiling.
C18_CeilingRespected ==
    /\ pc \in {"page", "get", "process"} => value_count <= max_value_count
    /\ pc = "fetched" => num_of_records <= max_value_count
    /\ pc = "get" => value_count < max_value_count

\* What holds of the code: the count stays below the ceiling rounded up to a
\* whole number of pages, and so within a ceiling that is a multiple of the
\* page limit, as main's is.
C18_CeilingRoundedUp ==
    LET rounded == ((max_value_count + limit - 1) \div limit) * limit
    IN  /\ pc \in {"page", "get", "process"} => value_count <= rounded
        /\ pc = "fetched" => num_of_records <= rounded
        /\ pc = "get" => value_count < max_value_count

\* The file name of the segment that is being written.
SegmentName == FileName(currentRunTime, minAct, maxAct)

\* C19: an iteration that got records writes one file per kind, named by the
\* run time and the lowest and highest action identifier of its segment, and
\* the name it writes to was not written by a segment before it (stated for
\* the segments of one run of the script, on a data lake that was empty).
C19_OneUnitPerSegment ==
    /\ pc \in {"push", "pushed"} =>
          /\ minAct = SetMin(dfs["actions"])
          /\ maxAct = SetMax(dfs["actions"])
    /\ pc = "pushed" =>
          \A n \in DOMAIN Kinds :
              /\ SegmentName \in DOMAIN Files(adl, Kinds[n])
              /\ adl[Kinds[n]][SegmentName] = dfs[Kinds[n]]
    /\ (pc = "push" /\ runs = 1) =>
          SegmentName \notin DOMAIN Files(adl, Kinds[collection])

\* What holds of the code: the naming, and one file per kind.
C19_NamedByRange ==
    /\ pc \in {"push", "pushed"} =>
          /\ minAct = SetMin(dfs["actions"])
          /\ maxAct = SetMax(dfs["actions"])
    /\ pc = "pushed" =>
          \A n \in DOMAIN Kinds :
              /\ SegmentName \in DOMAIN Files(adl, Kinds[n])
              /\ adl[Kinds[n]][SegmentName] = dfs[Kinds[n]]
    /\ pc = "push" =>
          \A n \in DOMAIN Kinds :
              n < collection => SegmentName \in DOMAIN Files(adl, Kinds[n])

\* The coarse get_data of the second instance returns what the first
\* instance's get_data, step by step, returns from the same watermark.
C20_SameFetch ==
    (pc = "fetched" /\ num_of_records > 0) =>
        dfs = get_data_answered(FirstStartId(maxId), limit, 0, EmptyTables)

\* The two instances have both written the segment they fetched from the same
\* watermark, each under its own start time.
BothCheckpointed ==
    /\ second.pc = "done" /\ second.dfs["actions"] # {}
    /\ pc = "pushed" /\ num_of_records > 0
    /\ second.maxId = maxId
    /\ second.time # currentRunTime

\* C20: two instances that run at the same time are not kept apart: when both
\* resolved the same watermark and both went on to fetch and to write, every
\* identifier of the segment is held by two different actions files.
C20_ConcurrentUnsafe ==
    BothCheckpointed =>
        /\ dfs["actions"] = second.dfs["actions"]
        /\ \A i \in dfs["actions"] : Cardinality(UnitsOf(i)) >= 2

\* Both instances resolved the watermark of an empty data lake before either
\* wrote, and an identifier is now in two files.
C20_Witness ==
    /\ BothCheckpointed
    /\ maxId = 0 /\ runs = 1
    /\ \E i \in remote : Cardinality(UnitsOf(i)) >= 2

\* The columns of the table that the step writes, when the step is a
\* push_to_adl of a kind whose projection is not inside try/except.
StrictWrite(kind) ==
    /\ pc = "push" /\ Kinds[collection] = kind
    /\ kind \in {"actions", "sessions", "hardware"}
    /\ adl' # adl

\* C21 as stated: the fixed column lists have 11 (actions), 14 (sessions),
\* 24 (geoip) and 6 (hardware) columns, and every table written for actions,
\* sessions or hardware has exactly the columns of its list, in the list's
\* order.
C21_ColumnCounts ==
    /\ [](Len(geoip_cols) = 24)
    /\ [][\A k \in DOMAIN columns :
            StrictWrite(k) =>
                /\ Columns(k, columns[k]) = cols(k)
                /\ Len(Columns(k, columns[k]))
                      = CASE k = "actions" -> 11
                          [] k = "sessions" -> 14
                          [] k = "hardware" -> 6]_vars

\* C21 amended: the sessions list has 15 columns; the lists have 11, 15, 24
\* and 6 columns, each with id among them, and every table written for
\* actions, sessions or hardware has exactly the columns of its list, in the
\* list's order, however the records came.
C21_FixedColumns ==
    /\ [](/\ Len(actions_cols) = 11 /\ Len(sessions_cols) = 15
           /\ Len(geoip_cols) = 24 /\ Len(hardware_cols) = 6
           /\ \A k \in DOMAIN columns : "id" \in Range(cols(k)))
    /\ [][\A k \in DOMAIN columns :
            StrictWrite(k) =>
                /\ Columns(k, columns[k]) = cols(k)
                /\ Len(Columns(k, columns[k])) = Len(cols(k))]_vars

\* All four kinds were written in a run whose actions came with a further
\* column, whose sessions came in another order and whose hardware came with
\* a further column.
C21_Witness ==
    /\ pc = "pushed"
    /\ schema["actions"] = "further"
    /\ schema["sessions"] = "reordered"
    /\ schema["hardware"] = "further"
    /\ Len(Columns("sessions", columns["sessions"])) = 15
    /\ \A n \in DOMAIN Kinds :
          FileName(currentRunTime, minAct, maxAct) \in DOMAIN Files(adl, Kinds[n])

\* The highest identifier checkpointed in storage (0: none).
HighestCheckpointed == IF Ingested = {} THEN 0 ELSE SetMax(Ingested)

\* The remote source holds nothing beyond what is checkpointed.
LiveEdge == \A i \in remote : i <= HighestCheckpointed

\* The driver's loop goes on to another iteration exactly when the fetch
\* returned as many records as the ceiling.
RepeatsOnFullFetch ==
    /\ [][(pc \in {"fetched", "pushed"} /\ pc' = "resolve")
            => num_of_records = MAX_RECORDS_PER_FILE]_vars
    /\ [][(pc \in {"fetched", "pushed"} /\ pc' = "done")
            => num_of_records # MAX_RECORDS_PER_FILE]_vars
    /\ [][(pc = "pushed") => pc' \in {"resolve", "done"}]_vars

\* C22 as stated: the driver runs another iteration exactly when the fetch
\* returned a count equal to the ceiling, and when it stops because a fetch
\* returned fewer than the ceiling, the remote source holds no record with an
\* identifier above the highest one checkpointed.
C22_StopsAtLiveEdge ==
    /\ RepeatsOnFullFetch
    /\ [](pc = "done" /\ num_of_records < MAX_RECORDS_PER_FILE => LiveEdge)

\* C22 amended: the same, for a stop after a fetch none of whose pages ran
\* out of attempts; a fetch that ended on a page out of attempts also returns
\* fewer than the ceiling and stops the driver, with records left.
C22_StopsAtLiveEdgeUnlessExhausted ==
    /\ RepeatsOnFullFetch
    /\ [](pc = "done" /\ num_of_records < MAX_RECORDS_PER_FILE /\ ~exhausted
            => LiveEdge)

\* A run of two iterations: the first fetch was full, the second was short
\* with no page out of attempts, and the run stopped at the live edge.
C22_Witness ==
    /\ pc = "done" /\ runs = 1
    /\ ~exhausted
    /\ num_of_records \in 1 .. MAX_RECORDS_PER_FILE - 1
    /\ Cardinality(DOMAIN Files(adl, "actions")) = 2
    /\ Cardinality(remote) > MAX_RECORDS_PER_FILE
    /\ LiveEdge

\* A stop short of the live edge after a page ran out of attempts.
C22_WitnessExhausted ==
    /\ pc = "done" /\ exhausted
    /\ num_of_records \in 1 .. MAX_RECORDS_PER_FILE - 1
    /\ ~LiveEdge

\* The page that the last request of the call was answered with.
LastPage == content.tables["actions"]

\* C23: within one call of get_data, the request that follows a parsed page
\* with records starts one past the highest identifier of that page, the
\* requests' startIds increase strictly, every parsed page with records is
\* accumulated once (the count is the number of distinct records accumulated,
\* and these are the records of the pages received), and a parsed page with
\* no records is not accumulated and ends the call.
C23_PagesAdvance ==
    /\ [][(pc = "page" /\ pc' = "get" /\ content.kind = "page" /\ LastPage # {})
            => url'.startId = SetMax(LastPage) + 1]_vars
    /\ [][(pc = "page" /\ pc' = "get") => url'.startId > url.startId]_vars
    /\ [](pc \in {"page", "get"} =>
            /\ value_count = Cardinality(lists["actions"])
            /\ lists = Received)
    /\ [][(pc = "process" /\ content.kind = "page" /\ LastPage = {})
            => (lists' = lists /\ value_count' = value_count /\ pc' = "page")]_vars
    /\ [][(pc = "page" /\ content.kind = "page" /\ LastPage = {})
            => pc' = "fetched"]_vars

\* The third request of a call, after a failed GET: it starts beyond the two
\* pages accumulated before it.
C23_Witness ==
    /\ pc = "get"
    /\ requested = 3
    /\ Len(attempts) > 0
    /\ Cardinality(got) = 2
    /\ value_count = 2 * limit
    /\ url.startId = SetMax(lists["actions"]) + 1

\* A parsed page with no records ended a call that had accumulated a page.
C23_WitnessEmptyPage ==
    /\ pc = "fetched"
    /\ num_of_records = limit
    /\ dfs["actions"] = {i \in remote : i > maxId}

\* A kind other than geoip comes without one of its fixed columns.
FatalMismatch == Mismatched \cap {"actions", "sessions", "hardware"} # {}

\* C24: an iteration whose records of actions, sessions or hardware come
\* without an expected column ends with the exception when main normalises
\* the tables, before any push_to_adl: no step of the iteration changes the
\* data lake, which stays as it was when the iteration started.
C24_FatalBeforeWrite ==
    /\ [][(pc = "fetched" /\ num_of_records > 0 /\ FatalMismatch)
            => pc' = "raised"]_vars
    /\ [][(FatalMismatch /\ pc \in {"resolve", "page", "get", "process",
                                     "fetched", "push"})
            => adl' = adl]_vars
    /\ [](FatalMismatch => pc # "push")

\* The second iteration of a run ended with the exception, with the segment
\* of the first iteration in the data lake and none written for the second.
C24_Witness ==
    /\ pc = "raised" /\ runs = 1
    /\ FatalMismatch
    /\ num_of_records > 0
    /\ Cardinality(DOMAIN Files(adl, "actions")) = 1
    /\ \A n \in DOMAIN Kinds :
          /\ DOMAIN Files(adl, Kinds[n]) = DOMAIN Files(adl, "actions")
          /\ \A name \in DOMAIN Files(adl, Kinds[n]) :
                adl[Kinds[n]][name] \cap dfs["actions"] = {}

\* The number of users of a page that were concatenated to UserDF.
UsersOfPage(p) ==
    Cardinality({i \in DOMAIN profiles.UserDF : profiles.UserDF[i].page = p})

\* C25: IngestUserProfiles requests the pages page, page+1, ... in order; it
\* goes on after a page of `limit` users and stops after the first page with
\* fewer; it exports once, after the last page, the users of all the pages;
\* when a page's request fails or a user of a page has no yinzid, the call
\* ends with the exception and the file in the data lake is as it was.
C25_ProfilesAllOrNothing ==
    /\ [](profiles.pc # "idle" =>
            /\ \A i \in DOMAIN profiles.urls :
                  profiles.urls[i] = profiles.first + i - 1
            /\ \A i \in 1 .. Len(profiles.urls) - 1 :
                  UsersOfPage(profiles.urls[i]) = ProfilesLimit
            /\ profiles.pc = "request" =>
                  \A i \in DOMAIN profiles.urls :
                      UsersOfPage(profiles.urls[i]) = ProfilesLimit
            /\ profiles.pc \in {"export", "done"} =>
                  /\ profiles.urls # <<>>
                  /\ UsersOfPage(profiles.urls[Len(profiles.urls)]) < ProfilesLimit
            /\ profiles.exports = (IF profiles.pc = "done" THEN 1 ELSE 0)
            /\ profiles.pc = "done" =>
                  /\ profiles.file = [exists |-> TRUE, users |-> profiles.UserDF]
                  /\ Len(profiles.UserDF)
                        = ProfilesLimit * (Len(profiles.urls) - 1)
                          + Len(profiles.users_raw)
            /\ (\/ profiles.response = "failed"
                \/ \E i \in DOMAIN profiles.users_raw :
                      ~profiles.users_raw[i].yinzid)
                  => profiles.pc = "raised")
    /\ [][(profiles.pc = "request") => profiles'.file = profiles.file]_vars
    /\ [][(profiles'.pc = "raised") => profiles'.file = profiles.file]_vars

\* Two full pages and a short one were requested from page 1 on, and their
\* users exported over the file of an earlier export.
C25_Witness ==
    /\ profiles.pc = "done"
    /\ profiles.urls = <<1, 2, 3>>
    /\ Len(profiles.UserDF) = 2 * ProfilesLimit + 1
    /\ profiles.file.users = profiles.UserDF
    /\ profiles.exports = 1

\* A user of the second page had no yinzid: the call raised, the first page's
\* users are lost and the file of the earlier export is as it was.
C25_WitnessRaised ==
    /\ profiles.pc = "raised"
    /\ Len(profiles.urls) = 2
    /\ profiles.response = "users"
    /\ Len(profiles.UserDF) = ProfilesLimit
    /\ profiles.file = OldFile
    /\ profiles.exports = 0

\* C26: for each endpoint the file in the data lake is overwritten with the
\* server's content if and only if the server's Content-length is greater than
\* the size of the file in the data lake (0 when there is none) and is left
\* as it is otherwise, so that after a run the data lake holds, for every
\* endpoint, the content the server holds.
C26_UpdatedFileIsUpdated ==
    /\ [][(meta.pc = "loop") =>
            LET f == url_list[meta.i] IN
            /\ \A g \in DOMAIN meta.lake \ {f} : meta'.lake[g] = meta.lake[g]
            /\ IF meta.server[f].length
                    > (IF meta.lake[f].exists THEN meta.lake[f].length ELSE 0)
               THEN /\ meta'.lake[f].exists
                    /\ meta'.lake[f].version = meta.server[f].version
                    /\ meta'.lake[f].length = meta.server[f].length
               ELSE meta'.lake[f] = meta.lake[f]]_vars
    /\ [](meta.pc = "done" =>
            \A f \in DOMAIN meta.server :
                /\ meta.lake[f].exists
                /\ meta.lake[f].version = meta.server[f].version)

\* The size rule alone: what C26 says of one pass of the loop.
C26_SizeRule ==
    [][(meta.pc = "loop") =>
        LET f == url_list[meta.i] IN
        /\ \A g \in DOMAIN meta.lake \ {f} : meta'.lake[g] = meta.lake[g]
        /\ (meta'.lake[f] # meta.lake[f])
              => meta.server[f].length
                    > (IF meta.lake[f].exists THEN meta.lake[f].length ELSE 0)]_vars

\* After a run the data lake holds an older version of a file than the
\* server, of the same length.
C26_WitnessStale ==
    /\ meta.pc = "done"
    /\ \E f \in DOMAIN meta.server :
          /\ meta.lake[f].exists
          /\ meta.lake[f].version < meta.server[f].version
          /\ meta.lake[f].length = meta.server[f].length

====
